---- MODULE Spec2Model ----
(***************************************************************************)
(* Paginated acquisition of climate records (danlab.api): the daily,       *)
(* flushing-daily, hourly and climate-station acquisitions, their          *)
(* match-count probe, the queryable-property validation and the per-group  *)
(* CSV flush (Spec, FairSpec); the repair and coverage functions of        *)
(* danlab.climate.data_integrity applied to bounded datasets               *)
(* (IntegritySpec); and the column reorder of danlab.data_clean applied    *)
(* to bounded frames (CleanSpec).                                          *)
(*                                                                         *)
(* One acquisition call is one behaviour: Start runs the code up to the    *)
(* probe, Probe runs find_number_matched and what follows it up to the     *)
(* first page request, Page(outcome) runs one iteration of the page loop   *)
(* (and, on the last iteration, the code after the loop).  The remote      *)
(* service answers every request; its answer is the nondeterministic       *)
(* input of the step.                                                      *)
(***************************************************************************)
EXTENDS Integers, Sequences, FiniteSets, TLC

\* ---------------------------------------------------------------- bounds
\* default_limit / limit (10000 in the source), scaled down
DefaultLimit == 2
\* largest `limit` a caller passes through **extra_params
MaxLimit == 3
\* largest `offset` a caller passes through **extra_params
MaxOffset == 1
\* rows held by the remote collection
MaxRows == 3
\* largest numberMatched the probe reports
MaxMatched == 3
\* failed page requests (non-200 or read timeout) per acquisition
MaxFailures == 2
\* distinct CLIMATE_IDENTIFIER values
MaxGroups == 2

\* ------------------------------------------------------------ vocabulary
Groups == 1..MaxGroups

CI == "CLIMATE_IDENTIFIER"
SN == "STATION_NAME"
BAD == "BAD_PROP"

\* titles the queryables endpoint declares for the collection
DeclaredQueryables == {CI, SN, "LOCAL_DATE"}

\* property lists a caller passes
PropertyLists == {<<CI, SN>>, <<CI>>, <<BAD, CI, SN>>}

Functions == {"daily", "csv", "hourly", "stations"}

\* what the transport does with one page request
Outcomes == {"ok", "bad_status", "read_timeout"}

\* numberMatched values the probe can come back with (0 also stands for the
\* failures find_number_matched turns into 0)
MatchCounts == (-1)..MaxMatched

\* **extra_params: a mapping that may override limit and/or offset
ExtraParams ==
    UNION { { [k \in D |-> IF k = "limit" THEN l ELSE o]
              : l \in 1..MaxLimit, o \in 1..MaxOffset }
            : D \in SUBSET {"limit", "offset"} }

\* rows sorted ascending by CLIMATE_IDENTIFIER
SortedByCid(rows) ==
    \A i, j \in 1..Len(rows) : i < j => rows[i].cid <= rows[j].cid

\* the rows the remote collection holds for the query, in the order the
\* service returns them; LOCAL_DATE is the row's position.  The daily and the
\* hourly acquisition query one station (STN_ID), so their rows carry one
\* CLIMATE_IDENTIFIER; the flushing acquisition queries every station with
\* sortby=+CLIMATE_IDENTIFIER,+LOCAL_DATE, which the service honours.
RowsWith(cids) ==
    UNION { { [i \in 1..k |-> [id |-> i, cid |-> gs[i]]]
              : gs \in [1..k -> cids] }
            : k \in 0..MaxRows }

Remotes(f) ==
    IF f = "csv" THEN {rows \in RowsWith(Groups) : SortedByCid(rows)}
    ELSE RowsWith({1})

VARIABLES
    fn,               \* which acquisition (or data_integrity function) runs
    pc,               \* position in it: start, probe, loop, done, raised
    args,             \* the call's arguments
    properties,       \* local `properties` (after validation)
    unq,              \* local `unq`: what check_unqueryable_properties returned
    request_params,   \* the query descriptor
    n_matched,
    n_iter,
    successful_iter,
    all_daily_data,   \* list of page frames (daily, hourly)
    accumulated,      \* all_daily_data of the flushing acquisition (a frame)
    result,           \* returned dataset (data_integrity: the call's outcome)
    storage,          \* files written: set of [file, rows]
    remote,           \* the service's result set
    log,              \* every network call issued, in order
    flushes           \* per-page flush writes: [cid, at]

vars == <<fn, pc, args, properties, unq, request_params, n_matched, n_iter,
          successful_iter, all_daily_data, accumulated, result, storage,
          remote, log, flushes>>

\* --------------------------------------------------------------- helpers
Min(a, b) == IF a < b THEN a ELSE b

\* math.ceil(a / b) for b > 0
Ceil(a, b) == -((-a) \div b)

RECURSIVE Flatten(_)
Flatten(ss) == IF ss = <<>> THEN <<>> ELSE Head(ss) \o Flatten(Tail(ss))

\* Series.unique(): distinct values in order of first appearance
RECURSIVE UniqueFrom(_, _)
UniqueFrom(s, seen) ==
    IF s = <<>> THEN <<>>
    ELSE IF Head(s).cid \in seen THEN UniqueFrom(Tail(s), seen)
    ELSE <<Head(s).cid>> \o UniqueFrom(Tail(s), seen \cup {Head(s).cid})

unique(df) == UniqueFrom(df, {})

RowsOf(df, g) == SelectSeq(df, LAMBDA r : r.cid = g)

Range(s) == {s[i] : i \in 1..Len(s)}

AllButLast(s) == IF s = <<>> THEN <<>> ELSE SubSeq(s, 1, Len(s) - 1)

\* {**base, **over}: a mapping with the keys of both, `over` winning
Merge(base, over) ==
    [k \in DOMAIN base \cup DOMAIN over |->
        IF k \in DOMAIN over THEN over[k] ELSE base[k]]

\* ','.join(names)
RECURSIVE Join(_)
Join(names) ==
    IF names = <<>> THEN ""
    ELSE IF Len(names) = 1 THEN names[1]
    ELSE names[1] \o "," \o Join(Tail(names))

\* outcome of a call: the value returned, or the exception that left it
Returned(v) == [raised |-> "", value |-> v]
Raised(e) == [raised |-> e, value |-> <<>>]

\* ---------------------------------------------------- remote collaborators
\* the page the service returns for offset/limit: rows offset+1 .. offset+limit
\* of its result set (none when the offset is past the end)
ServicePage(offset, limit) ==
    IF offset >= Len(remote) THEN <<>>
    ELSE SubSeq(remote, offset + 1, Min(offset + limit, Len(remote)))

\* the offset the service applies to a request: the one sent, 0 when the
\* request names none
OffsetSent(params) ==
    IF "offset" \in DOMAIN params THEN params.offset ELSE 0

\* what requests.get yields for a page request
PageResponse(outcome, params) ==
    [timeout     |-> outcome = "read_timeout",
     status_code |-> IF outcome = "ok" THEN 200 ELSE 500,
     rows        |-> IF outcome = "ok"
                     THEN ServicePage(OffsetSent(params), params.limit)
                     ELSE <<>>]

\* answers to the count-only request
ProbeResponses ==
    { [status_code |-> 200, json |-> TRUE, has_field |-> TRUE,
       numberMatched |-> m] : m \in MatchCounts }
    \cup { [status_code |-> 500, json |-> TRUE,  has_field |-> TRUE,  numberMatched |-> 1],
           [status_code |-> 200, json |-> FALSE, has_field |-> FALSE, numberMatched |-> 0],
           [status_code |-> 200, json |-> TRUE,  has_field |-> FALSE, numberMatched |-> 0] }

\* ------------------------------------------------------------ log entries
\* `params` is the query string sent; json and has_field tell whether the
\* answer's body decoded and held a numberMatched field
QueryablesCall(status) ==
    [kind |-> "queryables", offset |-> 0, limit |-> 0, outcome |-> status,
     rows |-> <<>>, matched |-> 0, params |-> [f |-> "json"],
     json |-> TRUE, has_field |-> FALSE]

ProbeCall(alt_params, resp) ==
    [kind |-> "probe", offset |-> alt_params.offset, limit |-> alt_params.limit,
     outcome |-> resp.status_code, rows |-> <<>>,
     matched |-> resp.numberMatched, params |-> alt_params,
     json |-> resp.json, has_field |-> resp.has_field]

PageCall(params, outcome, resp) ==
    [kind |-> "page", offset |-> OffsetSent(params), limit |-> params.limit,
     outcome |-> outcome, rows |-> resp.rows, matched |-> 0,
     params |-> params, json |-> TRUE, has_field |-> FALSE]

PageCalls(l) == SelectSeq(l, LAMBDA e : e.kind = "page")
OkPages(l) == SelectSeq(l, LAMBDA e : e.kind = "page" /\ e.outcome = "ok")
FailedPages(l) == SelectSeq(l, LAMBDA e : e.kind = "page" /\ e.outcome # "ok")

\* ------------------------------------------------- danlab.api.queryables
request_queryable_names_ignoring_status(status) == DeclaredQueryables

request_queryable_names(status) ==
    IF status # 200 THEN {} ELSE DeclaredQueryables

check_unqueryable_properties(props, status) ==
    LET allowed_queries == request_queryable_names(status)
    IN SelectSeq(props, LAMBDA p : p \notin allowed_queries)

\* properties = [prop for prop in properties if prop not in unq]
DropNothing(props, unqueryable) == props
DropUnqueryable(props, unqueryable) ==
    SelectSeq(props, LAMBDA p : p \notin Range(unqueryable))

\* ------------------------------------------------ danlab.api.query_match
find_number_matched_ignoring_status(resp) ==
    IF ~resp.json THEN 0
    ELSE IF ~resp.has_field THEN 0
    ELSE resp.numberMatched

find_number_matched(resp) ==
    IF resp.status_code # 200 THEN 0
    ELSE IF ~resp.json THEN 0
    ELSE IF ~resp.has_field THEN 0
    ELSE resp.numberMatched

\* alt_params of find_number_matched: a copy of params with f, items and
\* offset set; every other key, `limit` included, keeps the caller's value
CountOnlyParams(params) ==
    Merge(params, [f |-> "json", items |-> 1, offset |-> 0])

\* ------------------------------------------------- danlab.api.daily_data
None == [none |-> TRUE, rows |-> <<>>]
Frame(rows) == [none |-> FALSE, rows |-> rows]

\* variant: a non-200 answer handed on as an empty frame
request_data_frame_empty_on_status(resp) ==
    IF resp.timeout THEN None
    ELSE IF resp.status_code # 200 THEN Frame(<<>>)
    ELSE Frame(resp.rows)

\* variant: a read timeout handed on as an empty frame
request_data_frame_empty_on_timeout(resp) ==
    IF resp.timeout THEN Frame(<<>>)
    ELSE IF resp.status_code # 200 THEN None
    ELSE Frame(resp.rows)

request_data_frame(resp) ==
    IF resp.timeout THEN None
    ELSE IF resp.status_code # 200 THEN None
    ELSE Frame(resp.rows)

\* {'limit': ..., 'offset': 0, ..., **extra_params}
BuildParams(limit, extra) ==
    [k \in {"limit", "offset"} |->
        IF k \in DOMAIN extra THEN extra[k]
        ELSE IF k = "limit" THEN limit ELSE 0]

\* n_iter = math.ceil(n_matched / limit)
PageCountFloor(n, limit) == n \div limit
PageCount(n, limit) == Ceil(n, limit)

\* if n_matched <= 0: return gpd.GeoDataFrame()
NoneMatchedStrict(n) == n < 0
NoneMatched(n) == n <= 0

\* while successful_iter < n_iter
LoopConditionInclusive(done_iter, total_iter) == done_iter <= total_iter
LoopCondition(done_iter, total_iter) == done_iter < total_iter

\* all(req in properties for req in required_properties)
HasRequiredAny(props) == \E req \in {CI, SN} : req \in Range(props)
HasRequired(props) == \A req \in {CI, SN} : req \in Range(props)

\* danlab.file_manage.write_daily_to_csv: the file is named after the ids and
\* the first and last LOCAL_DATE of the rows written; same name overwrites
FileName(data_in) ==
    [ids |-> unique(data_in), dated |-> TRUE,
     first |-> CHOOSE d \in {r.id : r \in Range(data_in)} :
                  \A e \in {r.id : r \in Range(data_in)} : d <= e,
     last  |-> CHOOSE d \in {r.id : r \in Range(data_in)} :
                  \A e \in {r.id : r \in Range(data_in)} : d >= e]

to_csv(store, file, rows) ==
    {f \in store : f.file # file} \cup {[file |-> file, rows |-> rows]}

write_daily_data_to_csv(data_in, store) ==
    to_csv(store, FileName(data_in), data_in)

\* daily_data.drop(next_id_data.index)
Drop(df, g) == SelectSeq(df, LAMBDA r : r.cid # g)

\* The loop of write_full_set_to_csv.  `daily_data` is the function's local
\* name: the drop rebinds it and the function returns nothing, so only the
\* files written leave the function.
RECURSIVE WriteLoop(_, _, _)
WriteLoop(ids, daily_data, store) ==
    IF ids = <<>> THEN store
    ELSE LET next_id      == Head(ids)
             next_id_data == RowsOf(daily_data, next_id)
         IN WriteLoop(Tail(ids), Drop(daily_data, next_id),
                      write_daily_data_to_csv(next_id_data, store))

write_full_set_to_csv(daily_data, store) ==
    WriteLoop(AllButLast(unique(daily_data)), daily_data, store)

\* ids written by one call of write_full_set_to_csv
FlushedIds(daily_data) == Range(AllButLast(unique(daily_data)))

\* the loop after the page loop: one <STATION_NAME>_<id>.csv per id
RECURSIVE FinalLoop(_, _, _)
FinalLoop(ids, df, store) ==
    IF ids = <<>> THEN store
    ELSE FinalLoop(Tail(ids), df,
                   to_csv(store,
                          [ids |-> <<Head(ids)>>, dated |-> FALSE,
                           first |-> 0, last |-> 0],
                          RowsOf(df, Head(ids))))

FinalFlushAllButLast(df, store) ==
    IF df = <<>> THEN store ELSE FinalLoop(AllButLast(unique(df)), df, store)
FinalFlush(df, store) ==
    IF df = <<>> THEN store ELSE FinalLoop(unique(df), df, store)

\* ------------------------------------------- inputs of request_hourly_data
\* an element of `properties` that is not a str (the test passes 3+2j)
NotAString == "(3+2j)"

\* `properties`: an iterable of elements, or an object that is not iterable
\* (the test passes 11)
Iterable(names) == [type |-> "list", names |-> names]
NotIterable == [type |-> "int", names |-> <<>>]

\* station_id, given by the type of the object passed: an int, a str, a class
StationIds == {"int", "str", "type"}

\* date_interval: None, a datetime, a str, an int, or a list of such objects;
\* `text` is isoformat() of a datetime and the characters of a str
NoDate == [type |-> "NoneType", text |-> "", items |-> <<>>]
ADatetime == [type |-> "datetime", text |-> "2012-01-02T00:00:00", items |-> <<>>]
AString == [type |-> "str", text |-> "..", items |-> <<>>]
AnInt == [type |-> "int", text |-> "12", items |-> <<>>]
ListOf(items) == [type |-> "list", text |-> "", items |-> items]

DateIntervals ==
    {NoDate, ADatetime, AString, AnInt,
     ListOf(<<ADatetime, AString>>), ListOf(<<ADatetime, AnInt>>)}

\* the calls of request_hourly_data: every property list with every
\* extra_params for a well-typed station and no date, and each other type of
\* station_id, properties and date_interval with the default parameters
HourlyCalls ==
    { [station_id |-> "int", properties |-> Iterable(props),
       date_interval |-> NoDate, extra_params |-> extra]
        : props \in PropertyLists, extra \in ExtraParams }
    \cup { [station_id |-> sid, properties |-> Iterable(<<CI>>),
            date_interval |-> NoDate, extra_params |-> <<>>]
              : sid \in StationIds }
    \cup { [station_id |-> "int", properties |-> props,
            date_interval |-> NoDate, extra_params |-> <<>>]
              : props \in {NotIterable, Iterable(<<CI, NotAString>>)} }
    \cup { [station_id |-> "int", properties |-> Iterable(<<CI>>),
            date_interval |-> d, extra_params |-> <<>>]
              : d \in DateIntervals }

\* ---------------------------------------------- danlab.date_conversions
is_convertible_to_date_str(date_interval) ==
    IF date_interval.type = "datetime" THEN TRUE
    ELSE IF date_interval.type = "str" THEN TRUE
    ELSE IF date_interval.type = "list"
    THEN \A i \in 1..Len(date_interval.items) :
            date_interval.items[i].type \in {"datetime", "str"}
    ELSE FALSE

\* '/'.join(...)
RECURSIVE JoinDates(_)
JoinDates(items) ==
    IF items = <<>> THEN ""
    ELSE IF Len(items) = 1 THEN items[1].text
    ELSE items[1].text \o "/" \o JoinDates(Tail(items))

parse_date_time(date_interval) ==
    IF date_interval.type = "NoneType" THEN ""
    ELSE IF date_interval.type = "datetime" THEN date_interval.text
    ELSE IF date_interval.type = "list" THEN JoinDates(date_interval.items)
    ELSE date_interval.text

\* ------------------------------------------------------------------ Init
Init ==
    /\ fn \in Functions
    /\ pc = "start"
    /\ args = [has_properties |-> FALSE, properties |-> <<>>,
               extra_params |-> <<>>]
    /\ properties = <<>>
    /\ unq = <<>>
    /\ request_params = BuildParams(DefaultLimit, <<>>)
    /\ n_matched = 0
    /\ n_iter = 0
    /\ successful_iter = 0
    /\ all_daily_data = <<>>
    /\ accumulated = <<>>
    /\ result = <<>>
    /\ storage = {}
    /\ remote \in Remotes(fn)
    /\ log = <<>>
    /\ flushes = {}

\* --------------------------------------------------- request_daily_data
\* lines 98-117: validation of the properties and the query descriptor
StartDaily(has_props, props, extra, qstatus) ==
    /\ pc = "start"
    /\ fn = "daily"
    /\ args' = [has_properties |-> has_props, properties |-> props,
                extra_params |-> extra]
    /\ IF has_props
       THEN /\ unq' = check_unqueryable_properties(props, qstatus)
            /\ properties' = DropUnqueryable(props, unq')
            /\ log' = <<QueryablesCall(qstatus)>>
            \* request_params['properties'] = ','.join(properties)
            /\ request_params' = Merge(BuildParams(DefaultLimit, extra),
                                       [properties |-> Join(properties')])
       ELSE /\ properties' = props
            /\ log' = <<>>
            /\ request_params' = BuildParams(DefaultLimit, extra)
            /\ UNCHANGED unq
    /\ pc' = "probe"
    /\ UNCHANGED <<fn, n_matched, n_iter, successful_iter, all_daily_data,
                   accumulated, result, storage, remote, flushes>>

\* lines 119-128: the probe, the early return and the page count
ProbeDaily(resp) ==
    /\ pc = "probe"
    /\ fn = "daily"
    /\ log' = Append(log, ProbeCall(CountOnlyParams(request_params), resp))
    /\ n_matched' = find_number_matched(resp)
    /\ IF NoneMatched(n_matched')
       THEN /\ result' = <<>>
            /\ pc' = "done"
            /\ UNCHANGED <<n_iter, successful_iter>>
       ELSE /\ n_iter' = PageCount(n_matched', request_params.limit)
            /\ successful_iter' = 0
            /\ IF LoopCondition(0, n_iter')
               THEN pc' = "loop" /\ UNCHANGED result
               ELSE \* if not all_daily_data: return gpd.GeoDataFrame()
                    pc' = "done" /\ result' = <<>>
    /\ UNCHANGED <<fn, args, properties, unq, request_params, all_daily_data,
                   accumulated, storage, remote, flushes>>

\* lines 129-149: one iteration of the page loop; the iteration that makes
\* successful_iter reach n_iter also runs the code after the loop
DailyPage(outcome) ==
    /\ pc = "loop"
    /\ fn = "daily"
    /\ LoopCondition(successful_iter, n_iter)
    /\ outcome # "ok" => Len(FailedPages(log)) < MaxFailures
    /\ LET resp       == PageResponse(outcome, request_params)
           daily_data == request_data_frame(resp)
       IN /\ log' = Append(log, PageCall(request_params, outcome, resp))
          /\ IF daily_data.none
             THEN \* time.sleep(60); continue
                  UNCHANGED <<request_params, successful_iter,
                              all_daily_data, result, pc>>
             ELSE /\ all_daily_data' = Append(all_daily_data, daily_data.rows)
                  /\ request_params' =
                        [request_params EXCEPT
                            !.offset = @ + request_params.limit]
                  /\ successful_iter' = successful_iter + 1
                  /\ IF LoopCondition(successful_iter', n_iter)
                     THEN UNCHANGED <<result, pc>>
                     ELSE /\ result' = Flatten(all_daily_data')
                          /\ pc' = "done"
    /\ UNCHANGED <<fn, args, properties, unq, n_matched, n_iter, accumulated,
                   storage, remote, flushes>>

\* --------------------------- request_and_write_csv_for_all_daily_data
\* lines 204-223: validation, the required naming properties, the descriptor
StartCsv(props, extra, qstatus) ==
    /\ pc = "start"
    /\ fn = "csv"
    /\ args' = [has_properties |-> TRUE, properties |-> props,
                extra_params |-> extra]
    /\ log' = <<QueryablesCall(qstatus)>>
    /\ unq' = check_unqueryable_properties(props, qstatus)
    /\ properties' = DropUnqueryable(props, unq')
    /\ IF ~HasRequired(properties')
       THEN \* raise ValueError
            /\ pc' = "raised"
            /\ UNCHANGED request_params
       ELSE /\ request_params' =
                  Merge([properties |-> Join(properties'), f |-> "csv"],
                        BuildParams(DefaultLimit, extra))
            /\ pc' = "probe"
    /\ UNCHANGED <<fn, n_matched, n_iter, successful_iter, all_daily_data,
                   accumulated, result, storage, remote, flushes>>

\* lines 225-231 (and 248-249 when the loop is not entered)
ProbeCsv(resp) ==
    /\ pc = "probe"
    /\ fn = "csv"
    /\ log' = Append(log, ProbeCall(CountOnlyParams(request_params), resp))
    /\ n_matched' = find_number_matched(resp) + request_params.offset
    /\ n_iter' = PageCount(n_matched', DefaultLimit)
    /\ successful_iter' = 0
    /\ accumulated' = <<>>
    /\ pc' = IF LoopCondition(0, n_iter') THEN "loop" ELSE "done"
    /\ UNCHANGED <<fn, args, properties, unq, request_params, all_daily_data,
                   result, storage, remote, flushes>>

\* lines 231-255: one iteration of the page loop with the per-page flush; the
\* last iteration also runs the final write of what is held
CsvPage(outcome) ==
    /\ pc = "loop"
    /\ fn = "csv"
    /\ LoopCondition(successful_iter, n_iter)
    /\ outcome # "ok" => Len(FailedPages(log)) < MaxFailures
    /\ LET resp       == PageResponse(outcome, request_params)
           daily_data == request_data_frame(resp)
       IN /\ log' = Append(log, PageCall(request_params, outcome, resp))
          /\ IF daily_data.none
             THEN \* time.sleep(60); continue
                  UNCHANGED <<request_params, successful_iter, accumulated,
                              storage, flushes, pc>>
             ELSE /\ accumulated' = accumulated \o daily_data.rows
                  /\ flushes' = flushes \cup
                        {[cid |-> g, at |-> Len(log')]
                            : g \in FlushedIds(accumulated')}
                  /\ request_params' =
                        [request_params EXCEPT !.offset = @ + DefaultLimit]
                  /\ successful_iter' = successful_iter + 1
                  /\ LET flushed == write_full_set_to_csv(accumulated', storage)
                     IN IF LoopCondition(successful_iter', n_iter)
                        THEN /\ storage' = flushed
                             /\ UNCHANGED pc
                        ELSE /\ storage' = FinalFlush(accumulated', flushed)
                             /\ pc' = "done"
    /\ UNCHANGED <<fn, args, properties, unq, n_matched, n_iter, all_daily_data,
                   result, remote>>

\* -------------------------------------------------- request_hourly_data
\* lines 61-66: the type checks
BadHourlyInput(station_id, props, date_interval) ==
    \/ station_id # "int"
    \/ props.type # "list"
    \/ ~is_convertible_to_date_str(date_interval)
          /\ date_interval.type # "NoneType"

\* lines 61-82
StartHourly(station_id, props, date_interval, extra, qstatus) ==
    /\ pc = "start"
    /\ fn = "hourly"
    /\ args' = [has_properties |-> TRUE, properties |-> props.names,
                extra_params |-> extra, station_id |-> station_id,
                properties_type |-> props.type,
                date_interval |-> date_interval]
    /\ IF BadHourlyInput(station_id, props, date_interval)
       THEN \* raise TypeError
            /\ pc' = "raised"
            /\ result' = Raised("TypeError")
            /\ UNCHANGED <<log, unq, properties, request_params>>
       ELSE /\ log' = <<QueryablesCall(qstatus)>>
            /\ unq' = check_unqueryable_properties(props.names, qstatus)
            /\ properties' = DropUnqueryable(props.names, unq')
            /\ request_params' =
                  LET base == Merge([properties |-> Join(properties'),
                                     STN_ID |-> station_id],
                                    BuildParams(DefaultLimit, extra))
                  IN IF date_interval.type # "NoneType"
                     THEN Merge(base,
                                [datetime |-> parse_date_time(date_interval)])
                     ELSE base
            /\ pc' = "probe"
            /\ UNCHANGED result
    /\ UNCHANGED <<fn, n_matched, n_iter, successful_iter, all_daily_data,
                   accumulated, storage, remote, flushes>>

\* lines 84-92
ProbeHourly(resp) ==
    /\ pc = "probe"
    /\ fn = "hourly"
    /\ log' = Append(log, ProbeCall(CountOnlyParams(request_params), resp))
    /\ n_matched' = find_number_matched(resp)
    /\ IF NoneMatched(n_matched')
       THEN /\ result' = <<>>
            /\ pc' = "done"
            /\ UNCHANGED <<n_iter, successful_iter>>
       ELSE /\ n_iter' = PageCount(n_matched', request_params.limit)
            /\ successful_iter' = 0
            /\ IF 0 < n_iter'
               THEN pc' = "loop" /\ UNCHANGED result
               ELSE \* pd.concat of an empty list raises ValueError
                    pc' = "raised" /\ UNCHANGED result
    /\ UNCHANGED <<fn, args, properties, unq, request_params, all_daily_data,
                   accumulated, storage, remote, flushes>>

\* lines 93-116: one iteration of the for loop.  requests.get is called
\* bare: a read timeout leaves the function as an exception; a non-200
\* status breaks out of the loop, and pd.concat raises on an empty list.
HourlyPage(outcome) ==
    /\ pc = "loop"
    /\ fn = "hourly"
    /\ successful_iter < n_iter   \* for _ in range(n_iter)
    /\ outcome # "ok" => Len(FailedPages(log)) < MaxFailures
    /\ LET resp == PageResponse(outcome, request_params)
       IN /\ log' = Append(log, PageCall(request_params, outcome, resp))
          /\ IF resp.timeout
             THEN /\ pc' = "raised"
                  /\ UNCHANGED <<request_params, successful_iter,
                                 all_daily_data, result>>
             ELSE IF resp.status_code # 200
             THEN /\ IF all_daily_data = <<>>
                     THEN pc' = "raised" /\ UNCHANGED result
                     ELSE pc' = "done" /\ result' = Flatten(all_daily_data)
                  /\ UNCHANGED <<request_params, successful_iter,
                                 all_daily_data>>
             ELSE /\ all_daily_data' = Append(all_daily_data, resp.rows)
                  /\ request_params' =
                        [request_params EXCEPT
                            !.offset = @ + request_params.limit]
                  /\ successful_iter' = successful_iter + 1
                  /\ IF successful_iter' < n_iter
                     THEN UNCHANGED <<result, pc>>
                     ELSE /\ result' = Flatten(all_daily_data')
                          /\ pc' = "done"
    /\ UNCHANGED <<fn, args, properties, unq, n_matched, n_iter, accumulated,
                   storage, remote, flushes>>

\* --------------------------- danlab.api.climate_station
\* lines 45-58: the query descriptor ({'limit': default_limit,
\* **extra_params}: no offset unless the caller passes one) and the
\* validation of the properties, if given
StartStations(has_props, props, extra, qstatus) ==
    /\ pc = "start"
    /\ fn = "stations"
    /\ args' = [has_properties |-> has_props, properties |-> props,
                extra_params |-> extra]
    /\ IF has_props
       THEN /\ unq' = check_unqueryable_properties(props, qstatus)
            /\ properties' = DropUnqueryable(props, unq')
            /\ log' = <<QueryablesCall(qstatus)>>
            /\ request_params' =
                  Merge(Merge([limit |-> DefaultLimit], extra),
                        [properties |-> Join(properties')])
       ELSE /\ properties' = props
            /\ log' = <<>>
            /\ request_params' = Merge([limit |-> DefaultLimit], extra)
            /\ UNCHANGED unq
    /\ pc' = "probe"
    /\ UNCHANGED <<fn, n_matched, n_iter, successful_iter, all_daily_data,
                   accumulated, result, storage, remote, flushes>>

\* lines 60-67
ProbeStations(resp) ==
    /\ pc = "probe"
    /\ fn = "stations"
    /\ log' = Append(log, ProbeCall(CountOnlyParams(request_params), resp))
    /\ n_matched' = find_number_matched(resp)
    /\ IF NoneMatched(n_matched')
       THEN /\ result' = <<>>
            /\ pc' = "done"
            /\ UNCHANGED <<n_iter, successful_iter>>
       ELSE /\ n_iter' = PageCount(n_matched', request_params.limit)
            /\ successful_iter' = 0
            /\ IF 0 < n_iter'
               THEN pc' = "loop" /\ UNCHANGED result
               ELSE \* pd.concat of an empty list raises ValueError
                    pc' = "raised" /\ UNCHANGED result
    /\ UNCHANGED <<fn, args, properties, unq, request_params, all_daily_data,
                   accumulated, storage, remote, flushes>>

\* lines 70-96: one iteration of the for loop.  request_params is sent as it
\* is and nothing in the loop assigns to it.  A read timeout leaves the
\* function as an exception, a non-200 status returns an empty frame.
StationsPage(outcome) ==
    /\ pc = "loop"
    /\ fn = "stations"
    /\ successful_iter < n_iter   \* for _ in range(n_iter)
    /\ LET resp == PageResponse(outcome, request_params)
       IN /\ log' = Append(log, PageCall(request_params, outcome, resp))
          /\ IF resp.timeout
             THEN /\ pc' = "raised"
                  /\ UNCHANGED <<successful_iter, all_daily_data, result>>
             ELSE IF resp.status_code # 200
             THEN \* return pd.DataFrame()
                  /\ pc' = "done"
                  /\ result' = <<>>
                  /\ UNCHANGED <<successful_iter, all_daily_data>>
             ELSE /\ all_daily_data' = Append(all_daily_data, resp.rows)
                  /\ successful_iter' = successful_iter + 1
                  /\ IF successful_iter' < n_iter
                     THEN UNCHANGED <<result, pc>>
                     ELSE /\ result' = Flatten(all_daily_data')
                          /\ pc' = "done"
    /\ UNCHANGED <<fn, args, properties, unq, request_params, n_matched, n_iter,
                   accumulated, storage, remote, flushes>>

\* ------------------------------------------------------------------ Next
Next ==
    \/ \E extra \in ExtraParams, q \in {200, 500} :
          \/ StartDaily(FALSE, <<>>, extra, q)
          \/ \E props \in PropertyLists : StartDaily(TRUE, props, extra, q)
    \/ \E props \in PropertyLists, extra \in ExtraParams, q \in {200, 500} :
          StartCsv(props, extra, q)
    \/ \E call \in HourlyCalls, q \in {200, 500} :
          StartHourly(call.station_id, call.properties, call.date_interval,
                      call.extra_params, q)
    \/ \E extra \in ExtraParams, q \in {200, 500} :
          \/ StartStations(FALSE, <<>>, extra, q)
          \/ \E props \in PropertyLists : StartStations(TRUE, props, extra, q)
    \/ \E resp \in ProbeResponses : ProbeStations(resp)
    \/ \E outcome \in Outcomes : StationsPage(outcome)
    \/ \E resp \in ProbeResponses : ProbeDaily(resp)
    \/ \E resp \in ProbeResponses : ProbeCsv(resp)
    \/ \E resp \in ProbeResponses : ProbeHourly(resp)
    \/ \E outcome \in Outcomes : DailyPage(outcome)
    \/ \E outcome \in Outcomes : CsvPage(outcome)
    \/ \E outcome \in Outcomes : HourlyPage(outcome)

Spec == Init /\ [][Next]_vars

\* the service eventually answers a page request of request_daily_data with
\* success: the successful iteration cannot be postponed forever
FairSpec == Spec /\ WF_vars(DailyPage("ok"))

\* =========================================== danlab.climate.data_integrity
\* A dataset is the sequence of its rows in storage order.  A row is a record
\* of its index label and its cells: LOCAL_DATE (a timestamp, counted in
\* clock ticks), the observation columns X and TMAX, and, once reset_index
\* has run, the column `index`.  One call of a function of the module is one
\* behaviour: the dataset is chosen initially, the step picks the remaining
\* arguments and applies the function.

\* rows of a dataset handed to the repair functions
MaxFrameRows == 3
\* rows of a dataset handed to the coverage functions
MaxCoverageRows == 2
\* calendar days the timestamps of a dataset range over
MaxDays == 3

\* clock ticks per calendar day (the resolution below which Timedelta.days
\* truncates)
TicksPerDay == 2

\* the missing-value marker (NaN, NaT, None); every real cell is >= 0
NaN == -1

Timestamps == 0..(MaxDays * TicksPerDay - 1)

IntegrityFunctions ==
    {"fill_data_frame_by_plans", "add_missing_days", "list_missing_days",
     "calc_daily_data_coverage_percentages", "calc_percent_rows_fully_covered"}

\* index labels of an n-row dataset: a RangeIndex (k = n), or the labels left
\* by concatenating pages of k rows without ignore_index
Labelings(n) == { [i \in 1..n |-> (i - 1) % k] : k \in 1..n }
RangeIndex(n) == { [i \in 1..n |-> i - 1] }

\* one timestamp per row, a day apart, in storage order
DailyDates(n) == { [i \in 1..n |-> (i - 1) * TicksPerDay] }
AnyDates(n) == [1..n -> Timestamps]
\* timestamps as the service returns them under sortby=+LOCAL_DATE
SortedDates(n) ==
    { d \in [1..n -> Timestamps] : \A i \in 1..(n - 1) : d[i] <= d[i + 1] }

\* an observation column: any cells of `values`; or the row's ordinal as its
\* value, the first row's cell missing or not
Cells(n, values) == [1..n -> values]
Ordinals(n) == { [i \in 1..n |-> IF i <= k THEN NaN ELSE i] : k \in {0, 1} }

\* the n-row datasets with the given index, date and observation columns
FramesOf(n, labels, dates, xs, ts) ==
    { [i \in 1..n |-> [label |-> l[i], LOCAL_DATE |-> d[i],
                       X |-> x[i], TMAX |-> t[i]]]
        : l \in labels, d \in dates, x \in xs, t \in ts }

\* the datasets each function is applied to
Datasets(f) ==
    CASE f = "fill_data_frame_by_plans" ->
           UNION { FramesOf(n, Labelings(n), DailyDates(n),
                            Cells(n, {NaN, 1, 2}), Cells(n, {1}))
                     : n \in 1..MaxFrameRows }
      [] f = "add_missing_days" ->
           UNION { FramesOf(n, RangeIndex(n), AnyDates(n),
                            Ordinals(n), Cells(n, {1}))
                     : n \in 1..MaxFrameRows }
      [] f = "list_missing_days" ->
           UNION { FramesOf(n, RangeIndex(n), AnyDates(n),
                            Cells(n, {1}), Cells(n, {1}))
                     : n \in 1..MaxFrameRows }
      [] OTHER ->
           UNION { FramesOf(n, RangeIndex(n), SortedDates(n),
                            Cells(n, {NaN, 1}), Cells(n, {NaN, 1}))
                     : n \in 1..MaxCoverageRows }

\* ---- fill plans: a dict (here the sequence of its items) or None
NoPlans == [none |-> TRUE, items |-> <<>>]
Plans(items) == [none |-> FALSE, items |-> items]

\* a plan is a callable, a string (given by what split('=') makes of it) or
\* any other object; `value` is what the object is as a cell value
Callable == [type |-> "callable", parts |-> <<>>, value |-> 0]
Str(parts, value) == [type |-> "str", parts |-> parts, value |-> value]
Constant(value) == [type |-> "value", parts |-> <<>>, value |-> value]

\* the callable plan used: a pure function of the row
RowFunction(row) == 10 + row.LOCAL_DATE

FillPlans ==
    { Plans(<<[col |-> "X", plan |-> p]>>)
        : p \in { Constant(7), Callable,
                  Str(<<"method", "bfill">>, 8),
                  Str(<<"method ", " ffill">>, 8),
                  Str(<<"method", "pad">>, 8),
                  \* a string without '=': 'linear'
                  Str(<<"linear">>, 9) } }
    \cup { \* a key that names no column
           Plans(<<[col |-> "Y", plan |-> Constant(7)]>>),
           \* a plan that edits X before the plan of TMAX raises
           Plans(<<[col |-> "X", plan |-> Constant(7)],
                   [col |-> "TMAX", plan |-> Str(<<"method", "pad">>, 8)]>>) }

\* the plans add_missing_days is called with
AddPlans ==
    { NoPlans,
      Plans(<<[col |-> "X", plan |-> Str(<<"method", "ffill">>, 8)]>>),
      Plans(<<[col |-> "Y", plan |-> Constant(7)]>>) }

\* ---- `columns`: a list of names, or one name given as a string (held as
\* names[1])
ColumnList(names) == [type |-> "list", names |-> names]
ColumnName(name) == [type |-> "str", names |-> <<name>>]

ColumnArgs(f) ==
    IF f = "calc_daily_data_coverage_percentages"
    THEN {ColumnList(<<"X">>), ColumnList(<<"X", "TMAX">>),
          ColumnName("X"), ColumnName("TMAX")}
    ELSE {ColumnList(<<"X">>), ColumnList(<<"X", "TMAX">>)}

\* ---- outcome of a call
\* raised inside the fill loop: data_out is the loop's frame as the error left it
RaisedIn(e, data_out) == [raised |-> e, value |-> <<>>, data_out |-> data_out]

\* ---- pandas primitives
Columns(df) == DOMAIN df[1] \ {"label"}
Column(df, c) == [i \in 1..Len(df) |-> df[i][c]]
SetColumn(df, c, vals) == [i \in 1..Len(df) |-> [df[i] EXCEPT ![c] = vals[i]]]
IndexLabels(df) == {df[i].label : i \in 1..Len(df)}

SeqMin(s) == CHOOSE v \in Range(s) : \A w \in Range(s) : v <= w
SeqMax(s) == CHOOSE v \in Range(s) : \A w \in Range(s) : v >= w

\* str.strip()
strip(s) ==
    CASE s = "method " -> "method"
      [] s = " ffill"  -> "ffill"
      [] OTHER         -> s

\* set(columns): the names of a list, the characters of a string
Chars(name) ==
    CASE name = "X"    -> {"X"}
      [] name = "TMAX" -> {"T", "M", "A", "X"}
SetOfColumns(columns) ==
    IF columns.type = "str" THEN Chars(columns.names[1])
    ELSE Range(columns.names)

\* Series.bfill(): a missing cell takes the next non-missing value below it
RECURSIVE bfill(_)
bfill(s) ==
    IF s = <<>> THEN <<>>
    ELSE LET rest == bfill(Tail(s))
         IN <<IF Head(s) # NaN THEN Head(s)
               ELSE IF rest = <<>> THEN NaN ELSE Head(rest)>> \o rest

\* Series.ffill(): a missing cell takes the last non-missing value above it
RECURSIVE ffill(_)
ffill(s) ==
    IF s = <<>> THEN <<>>
    ELSE LET init == ffill(AllButLast(s))
             last == s[Len(s)]
         IN Append(init, IF last # NaN THEN last
                         ELSE IF init = <<>> THEN NaN ELSE init[Len(init)])

\* pd.date_range(start, end, freq='D'): start, start + 1 day, ... up to end
date_range_open(start, end) ==
    [k \in 1..((end - start) \div TicksPerDay) |-> start + (k - 1) * TicksPerDay]
date_range(start, end) ==
    [k \in 1..((end - start) \div TicksPerDay + 1) |->
        start + (k - 1) * TicksPerDay]

\* (a - b).days + 1
SpanDays(a, b) == (a - b) \div TicksPerDay + 1

\* sort ascending by `key` (sort_index / sort_values), equal keys kept in order
RECURSIVE SortBy(_, _)
SortBy(df, key) ==
    IF df = <<>> THEN <<>>
    ELSE LET sorted == SortBy(AllButLast(df), key)
             r      == df[Len(df)]
             before == SelectSeq(sorted, LAMBDA q : q[key] <= r[key])
             after  == SelectSeq(sorted, LAMBDA q : q[key] > r[key])
         IN before \o <<r>> \o after

\* Index.difference(other): the labels of the one not among the other's
IndexDifference(index, other) == index \ other

\* DataFrame.reset_index(): the old index becomes the column `index`
reset_index(df) ==
    [i \in 1..Len(df) |->
        [c \in DOMAIN df[i] \cup {"index"} |->
            IF c = "index" THEN df[i].label
            ELSE IF c = "label" THEN i - 1 ELSE df[i][c]]]

\* DataFrame.set_index(col, drop=False)
set_index(df, col) ==
    [i \in 1..Len(df) |-> [df[i] EXCEPT !.label = df[i][col]]]

\* DataFrame.reindex(new_index): the row of each label, a blank row for a
\* label the dataset lacks; duplicate labels in the dataset raise ValueError
reindex(df, new_index) ==
    IF Cardinality(IndexLabels(df)) # Len(df) THEN Raised("ValueError")
    ELSE Returned(
           [k \in 1..Len(new_index) |->
               IF new_index[k] \in IndexLabels(df)
               THEN df[CHOOSE i \in 1..Len(df) : df[i].label = new_index[k]]
               ELSE [c \in DOMAIN df[1] |->
                        IF c = "label" THEN new_index[k] ELSE NaN]])

\* DataFrame.count()[c]: the non-missing cells of column c
size(df, c) == Len(df)
count(df, c) == Cardinality({i \in 1..Len(df) : df[i][c] # NaN})

\* n / d, kept as the fraction
Ratio(n, d) == [num |-> n, den |-> d]

\* ---- the module's functions
\* method_type == 'bfill' / elif method_type == 'ffill' / else: raise
AnyMethod(method_type) == TRUE
KnownMethod(method_type) == method_type \in {"bfill", "ffill"}

\* _check_valid_fill_plans: the plan keys that name no column of data_in
BadPlanKeys(data_in, plans) ==
    {plans.items[i].col : i \in 1..Len(plans.items)} \ Columns(data_in)

\* one iteration of the loop of fill_data_frame_by_plans
FillColumn(data_out, data_in, col, plan, rows_to_edit) ==
    IF plan.type = "callable"
    THEN Returned([i \in 1..Len(data_out) |->
                     IF rows_to_edit[i]
                     THEN [data_out[i] EXCEPT ![col] = RowFunction(data_out[i])]
                     ELSE data_out[i]])
    ELSE IF /\ plan.type = "str"
            /\ Len(plan.parts) = 2
            /\ strip(plan.parts[1]) = "method"
    THEN LET method_type == strip(plan.parts[2])
             filled == IF method_type = "bfill"
                       THEN bfill(Column(data_out, col))
                       ELSE ffill(Column(data_out, col))
             \* data_out.loc[rows_to_edit,].index
             edited == {data_out[i].label :
                           i \in {j \in 1..Len(data_out) : rows_to_edit[j]}}
             rows_to_exclude == IndexDifference(IndexLabels(data_out), edited)
         IN IF ~KnownMethod(method_type)
            THEN Raised("ValueError")
            ELSE Returned([i \in 1..Len(data_out) |->
                             [data_out[i] EXCEPT ![col] =
                                 IF data_out[i].label \in rows_to_exclude
                                 THEN data_in[i][col] ELSE filled[i]]])
    ELSE Returned([i \in 1..Len(data_out) |->
                     IF rows_to_edit[i]
                     THEN [data_out[i] EXCEPT ![col] = plan.value]
                     ELSE data_out[i]])

RECURSIVE FillLoop(_, _, _, _)
FillLoop(items, data_out, data_in, rows_to_edit) ==
    IF items = <<>> THEN Returned(data_out)
    ELSE LET step == FillColumn(data_out, data_in, Head(items).col,
                                Head(items).plan, rows_to_edit)
         IN IF step.raised # "" THEN RaisedIn(step.raised, data_out)
            ELSE FillLoop(Tail(items), step.value, data_in, rows_to_edit)

\* rows_to_edit is a boolean mask over the rows (slice(None): all TRUE)
fill_data_frame_by_plans(data_in, column_fill_plans, rows_to_edit) ==
    IF column_fill_plans.none THEN Returned(data_in)
    ELSE IF BadPlanKeys(data_in, column_fill_plans) # {}
    THEN Raised("ValueError")
    ELSE FillLoop(column_fill_plans.items, data_in, data_in, rows_to_edit)

add_missing_days(data_in, column_fill_plans) ==
    IF BadPlanKeys(data_in, column_fill_plans) # {} THEN Raised("ValueError")
    ELSE LET first_day == SeqMin(Column(data_in, "LOCAL_DATE"))
             last_day  == SeqMax(Column(data_in, "LOCAL_DATE"))
             keyed     == SortBy(set_index(reset_index(data_in), "LOCAL_DATE"),
                                 "label")
             reindexed == reindex(keyed, date_range(first_day, last_day))
         IN IF reindexed.raised # "" THEN reindexed
            ELSE LET data_out ==
                        SetColumn(reindexed.value, "LOCAL_DATE",
                                  Column(reindexed.value, "label"))
                     \* the one new column is `index`
                     newly_added_days ==
                        [i \in 1..Len(data_out) |-> data_out[i].index = NaN]
                 IN fill_data_frame_by_plans(data_out, column_fill_plans,
                                             newly_added_days)

list_missing_days_unsorted(data_in) ==
    LET dates_in == Column(data_in, "LOCAL_DATE")
    IN Returned(SelectSeq(date_range(dates_in[1], dates_in[Len(dates_in)]),
                          LAMBDA t : t \notin Range(dates_in)))

list_missing_days(data_in) ==
    LET dates_in == Column(SortBy(data_in, "LOCAL_DATE"), "LOCAL_DATE")
    IN Returned(SelectSeq(date_range(dates_in[1], dates_in[Len(dates_in)]),
                          LAMBDA t : t \notin Range(dates_in)))

calc_daily_data_coverage_percentages(data_in, columns) ==
    IF SetOfColumns(columns) \ Columns(data_in) # {} THEN Raised("ValueError")
    ELSE LET num_days == SpanDays(SeqMax(Column(data_in, "LOCAL_DATE")),
                                  SeqMin(Column(data_in, "LOCAL_DATE")))
         IN IF columns.type = "str"
            THEN Returned(Ratio(count(data_in, columns.names[1]), num_days))
            ELSE \* a Series: one entry per name, the name suffixed
                 Returned([k \in 1..Len(columns.names) |->
                             [index |-> columns.names[k] \o "_COVERAGE",
                              value |-> Ratio(count(data_in, columns.names[k]),
                                              num_days)]])

\* `columns` a list of names
calc_percent_rows_fully_covered(data_in, columns) ==
    IF SetOfColumns(columns) \ Columns(data_in) # {} THEN Raised("ValueError")
    ELSE LET num_days == SpanDays(SeqMax(Column(data_in, "LOCAL_DATE")),
                                  SeqMin(Column(data_in, "LOCAL_DATE")))
             covered  == {i \in 1..Len(data_in) :
                             \A c \in Range(columns.names) : data_in[i][c] # NaN}
         IN Returned(Ratio(Cardinality(covered), num_days))

\* the caller's frame once the call has left.  The functions edit frames of
\* their own (data_in.copy(), line 264; data_in.reset_index()...copy(), line
\* 81), so the caller's frame holds what it held before the call.
data_in_edited_in_place(data_in, outcome) ==
    IF "data_out" \in DOMAIN outcome THEN outcome.data_out ELSE data_in
data_in_after_call(data_in, outcome) == data_in

\* ---- one call
IntegrityInit ==
    /\ fn \in IntegrityFunctions
    /\ pc = "start"
    /\ args \in {[data_in |-> df] : df \in Datasets(fn)}
    /\ properties = <<>>
    /\ unq = <<>>
    /\ request_params = BuildParams(DefaultLimit, <<>>)
    /\ n_matched = 0
    /\ n_iter = 0
    /\ successful_iter = 0
    /\ all_daily_data = <<>>
    /\ accumulated = <<>>
    /\ result = <<>>
    /\ storage = {}
    /\ remote = <<>>
    /\ log = <<>>
    /\ flushes = {}

\* the call's arguments are recorded, the outcome is returned or raised
Call(a, outcome) ==
    /\ pc = "start"
    /\ args' = a
    /\ result' = outcome
    /\ pc' = IF outcome.raised = "" THEN "done" ELSE "raised"
    /\ UNCHANGED <<fn, properties, unq, request_params, n_matched, n_iter,
                   successful_iter, all_daily_data, accumulated, storage,
                   remote, log, flushes>>

\* a callable plan is applied where rows are selected
FillDataFrameByPlans(plans, rows_to_edit) ==
    /\ fn = "fill_data_frame_by_plans"
    /\ \A i \in 1..Len(plans.items) :
          plans.items[i].plan.type = "callable"
             => \E j \in 1..Len(rows_to_edit) : rows_to_edit[j]
    /\ LET outcome == fill_data_frame_by_plans(args.data_in, plans,
                                               rows_to_edit)
       IN Call([data_in |-> args.data_in, column_fill_plans |-> plans,
                rows_to_edit |-> rows_to_edit,
                data_in_after |-> data_in_after_call(args.data_in, outcome)],
               outcome)

AddMissingDays(plans) ==
    /\ fn = "add_missing_days"
    /\ LET outcome == add_missing_days(args.data_in, plans)
       IN Call([data_in |-> args.data_in, column_fill_plans |-> plans,
                \* the frame fill_data_frame_by_plans copies is line 81's own
                data_in_after |-> args.data_in],
               outcome)

ListMissingDays ==
    /\ fn = "list_missing_days"
    /\ Call(args, list_missing_days(args.data_in))

CalcDailyDataCoveragePercentages(columns) ==
    /\ fn = "calc_daily_data_coverage_percentages"
    /\ Call([data_in |-> args.data_in, columns |-> columns],
            calc_daily_data_coverage_percentages(args.data_in, columns))

CalcPercentRowsFullyCovered(columns) ==
    /\ fn = "calc_percent_rows_fully_covered"
    /\ Call([data_in |-> args.data_in, columns |-> columns],
            calc_percent_rows_fully_covered(args.data_in, columns))

IntegrityNext ==
    \/ \E plans \in FillPlans \cup {NoPlans},
          rows_to_edit \in [1..Len(args.data_in) -> BOOLEAN] :
          FillDataFrameByPlans(plans, rows_to_edit)
    \/ \E plans \in AddPlans : AddMissingDays(plans)
    \/ ListMissingDays
    \/ \E columns \in ColumnArgs(fn) : CalcDailyDataCoveragePercentages(columns)
    \/ \E columns \in ColumnArgs(fn) : CalcPercentRowsFullyCovered(columns)

IntegritySpec == IntegrityInit /\ [][IntegrityNext]_vars

\* ====================================================== danlab.data_clean
\* A frame is its column names in order and its rows; a row maps each column
\* name to its cell.  One behaviour applies
\* reorder_columns_to_match_properties to a frame and then, with the same
\* property list, to what it returned.

\* columns of a frame handed to the reorder
MaxColumns == 3
\* rows of such a frame
MaxCleanRows == 2
\* names in a property list
MaxProperties == 2

\* column names a page frame carries, and names a caller lists
FrameColumnNames == {"id", CI, SN, "geometry"}
PropertyNames == {CI, SN, "LOCAL_DATE"}

\* the cell of row r in column c: distinct per row and column
ColumnOrdinal(c) ==
    CASE c = "id" -> 1 [] c = CI -> 2 [] c = SN -> 3 [] c = "geometry" -> 4
      [] OTHER -> 5
Cell(r, c) == 10 * r + ColumnOrdinal(c)

NoDuplicates(names) ==
    \A i, j \in 1..Len(names) : i # j => names[i] # names[j]

\* frames of distinct columns, as the page decoder builds them
CleanFrames ==
    { [columns |-> cols,
       rows    |-> [r \in 1..n |-> [c \in Range(cols) |-> Cell(r, c)]]]
        : cols \in { q \in UNION { [1..k -> FrameColumnNames]
                                     : k \in 1..MaxColumns } : NoDuplicates(q) },
          n \in 0..MaxCleanRows }

\* `properties`: None or an iterable of names
NoProperties == [none |-> TRUE, names |-> <<>>]
PropertiesOf(names) == [none |-> FALSE, names |-> names]
CleanProperties ==
    {NoProperties}
    \cup { PropertiesOf(q)
             : q \in UNION { [1..k -> PropertyNames] : k \in 0..MaxProperties } }

\* DataFrame.reindex(columns=cols): the columns named, in that order, a
\* column the frame lacks blank; a frame with a repeated column name can only
\* be reindexed to the columns it has
reindex_columns(df, cols) ==
    IF ~NoDuplicates(df.columns) /\ cols # df.columns
    THEN Raised("ValueError")
    ELSE Returned(
           [columns |-> cols,
            rows    |-> [r \in 1..Len(df.rows) |->
                            [c \in Range(cols) |->
                                IF c \in Range(df.columns)
                                THEN df.rows[r][c] ELSE NaN]]])

\* [col for col in df.columns if col not in properties]
AllColumns(df, names) == df.columns
OtherColumns(df, names) ==
    SelectSeq(df.columns, LAMBDA col : col \notin Range(names))

\* ... + list(properties)
reordered_cols_properties_first(df, names) == names \o OtherColumns(df, names)
reordered_cols(df, names) == OtherColumns(df, names) \o names

reorder_columns_to_match_properties(df, props) ==
    IF props.none THEN Returned(df)
    ELSE reindex_columns(df, reordered_cols(df, props.names))

CleanInit ==
    /\ fn = "reorder_columns_to_match_properties"
    /\ pc = "start"
    /\ args \in {[df |-> df] : df \in CleanFrames}
    /\ properties = <<>>
    /\ unq = <<>>
    /\ request_params = BuildParams(DefaultLimit, <<>>)
    /\ n_matched = 0
    /\ n_iter = 0
    /\ successful_iter = 0
    /\ all_daily_data = <<>>
    /\ accumulated = <<>>
    /\ result = <<>>
    /\ storage = {}
    /\ remote = <<>>
    /\ log = <<>>
    /\ flushes = {}

\* the call on the caller's frame
ReorderColumns(props) ==
    /\ fn = "reorder_columns_to_match_properties"
    /\ pc = "start"
    /\ args' = [df |-> args.df, properties |-> props]
    /\ result' = reorder_columns_to_match_properties(args.df, props)
    /\ pc' = IF result'.raised = "" THEN "done" ELSE "raised"
    /\ UNCHANGED <<fn, properties, unq, request_params, n_matched, n_iter,
                   successful_iter, all_daily_data, accumulated, storage,
                   remote, log, flushes>>

\* the call on what the first call returned, same property list
ReorderColumnsAgain ==
    /\ fn = "reorder_columns_to_match_properties"
    /\ pc = "done"
    /\ result' = reorder_columns_to_match_properties(result.value,
                                                     args.properties)
    /\ pc' = IF result'.raised = "" THEN "done twice" ELSE "raised"
    /\ UNCHANGED <<fn, args, properties, unq, request_params, n_matched,
                   n_iter, successful_iter, all_daily_data, accumulated,
                   storage, remote, log, flushes>>

CleanNext ==
    \/ \E props \in CleanProperties : ReorderColumns(props)
    \/ ReorderColumnsAgain

CleanSpec == CleanInit /\ [][CleanNext]_vars

\* ================================================================ claims
\* what the caller asked for, read off the call's arguments
CallerLimit ==
    IF "limit" \in DOMAIN args.extra_params
    THEN args.extra_params.limit ELSE DefaultLimit
CallerOffset ==
    IF "offset" \in DOMAIN args.extra_params
    THEN args.extra_params.offset ELSE 0

PageRows(pages) == Flatten([k \in 1..Len(pages) |-> pages[k].rows])

\* C1: request_daily_data, match count n > 0, page limit L, every page
\* request answered with success (zero-row pages included), offset left at
\* its default: exactly ceil(n/L) page requests are issued, the k-th carries
\* offset (k-1)*L, and the returned dataset is the concatenation of the page
\* results in request order.
C1_PagesInRequestOrder ==
    ( /\ fn = "daily"
      /\ pc \in {"loop", "done"}
      /\ n_matched > 0
      /\ FailedPages(log) = <<>>
      /\ "offset" \notin DOMAIN args.extra_params )
    => LET pages == PageCalls(log)
           L     == CallerLimit
       IN /\ \A k \in 1..Len(pages) :
                pages[k].offset = (k - 1) * L /\ pages[k].limit = L
          /\ (Len(pages) - 1) * L < n_matched
          /\ pc = "done" =>
                /\ Len(pages) * L >= n_matched
                /\ result = PageRows(pages)

C1_Witness ==
    /\ fn = "daily"
    /\ pc = "done"
    /\ n_matched = 3
    /\ CallerLimit = 2
    /\ FailedPages(log) = <<>>
    /\ "offset" \notin DOMAIN args.extra_params
    /\ Len(PageCalls(log)) = 2
    /\ PageCalls(log)[2].rows = <<>>
    /\ Len(result) = 2

\* C2: request_daily_data: a page request answered with a non-200 status
\* leaves offset and the successful-page counter unchanged and the next page
\* request carries the same offset; after any mix of failures and successes
\* the accumulated pages are the pages at offsets o0, o0+L, o0+2L, ... each
\* once, in that order.
C2_FailedPageRetried ==
    (fn = "daily" /\ pc \in {"loop", "done"})
    => LET pages == PageCalls(log)
           ok    == OkPages(log)
       IN /\ \A i \in 1..Len(pages) :
                pages[i].outcome = "bad_status" =>
                    IF i < Len(pages)
                    THEN pages[i + 1].offset = pages[i].offset
                    ELSE /\ pc = "loop"
                         /\ request_params.offset = pages[i].offset
          /\ successful_iter = Len(ok)
          /\ \A k \in 1..Len(ok) :
                ok[k].offset = CallerOffset + (k - 1) * CallerLimit
          /\ all_daily_data = [k \in 1..Len(ok) |-> ok[k].rows]

C2_Witness ==
    /\ fn = "daily"
    /\ pc = "done"
    /\ Len(OkPages(log)) = 2
    /\ \E i \in 2..(Len(log) - 1) :
          /\ log[i].kind = "page" /\ log[i].outcome = "ok"
          /\ log[i + 1].kind = "page" /\ log[i + 1].outcome = "bad_status"
    /\ Len(result) = 3

C4_OneNetworkCall ==
    (fn \in {"daily", "hourly"} /\ pc = "done" /\ n_matched <= 0)
    => /\ Len(log) = 1
       /\ log[1].kind = "probe"
       /\ result = <<>>

\* C4 amended: with a probed match count <= 0 the acquisition returns an
\* empty dataset having issued no page request and exactly one request to the
\* items endpoint, the probe; when a property list was given (always, for
\* request_hourly_data) the probe is preceded by the one queryables request
\* of the property validation.
C4_ProbeAndValidationOnly ==
    ( /\ fn \in {"daily", "hourly"}
      /\ pc \notin {"start", "probe"}
      /\ log # <<>>
      /\ n_matched <= 0 )
    => /\ pc = "done"
       /\ result = <<>>
       /\ PageCalls(log) = <<>>
       /\ log[Len(log)].kind = "probe"
       /\ IF args.has_properties
          THEN Len(log) = 2 /\ log[1].kind = "queryables"
          ELSE Len(log) = 1

C4_Witness ==
    /\ fn = "hourly"
    /\ pc = "done"
    /\ n_matched = 0
    /\ Len(log) = 2
    /\ log[2].kind = "probe" /\ log[2].outcome = 200

\* rows the successful page requests of the first `upto` log entries returned
FetchedUpTo(upto) == PageRows(OkPages(SubSeq(log, 1, upto)))
Fetched == FetchedUpTo(Len(log))

Cids(df) == {r.cid : r \in Range(df)}

\* C5 as stated: in the flushing acquisition, after a successful page has
\* been appended and the flush step has run, every group but the last in
\* arrival order has been written and removed, so the accumulated dataset
\* holds only rows of the last group.
C5_OnlyLastGroupHeld ==
    (fn = "csv" /\ pc = "loop" /\ successful_iter > 0)
    => /\ \A g \in FlushedIds(Fetched) :
             \E f \in storage : f.file.dated /\ f.file.ids = <<g>>
       /\ \A r \in Range(accumulated) :
             r.cid = accumulated[Len(accumulated)].cid

\* C6 as stated: with the rows sorted ascending by CLIMATE_IDENTIFIER and the
\* pages appended in increasing-offset order, when the per-page flush writes
\* a group every row of that group in the result set (from the offset the
\* acquisition started at) has been fetched, and no later page holds a row of
\* that group.
C6_FlushedGroupComplete ==
    (fn = "csv" /\ SortedByCid(remote))
    => \A f \in flushes :
          /\ \A i \in (CallerOffset + 1)..Len(remote) :
                remote[i].cid = f.cid => remote[i] \in Range(FetchedUpTo(f.at))
          /\ \A j \in (f.at + 1)..Len(log) :
                \A r \in Range(log[j].rows) : r.cid # f.cid

\* C7: when the flushing acquisition completes, every distinct
\* CLIMATE_IDENTIFIER among the fetched rows has a file in storage that holds
\* all fetched rows of that group, so no fetched row is missing from storage.
C7_AllFetchedRowsStored ==
    (fn = "csv" /\ pc = "done")
    => \A g \in Cids(Fetched) :
          \E f \in storage :
             /\ f.file.ids = <<g>>
             /\ f.rows = RowsOf(Fetched, g)

C7_Witness ==
    /\ fn = "csv"
    /\ pc = "done"
    /\ Len(OkPages(log)) >= 2
    /\ Cardinality(Cids(Fetched)) = 2
    /\ Fetched = remote
    /\ \E f \in storage : ~f.file.dated /\ f.rows = RowsOf(remote, remote[Len(remote)].cid)

\* the match count the probe reported to the acquisition
ProbedCount ==
    find_number_matched(
        [status_code |-> SelectSeq(log, LAMBDA e : e.kind = "probe")[1].outcome,
         json |-> TRUE, has_field |-> TRUE,
         numberMatched |-> SelectSeq(log, LAMBDA e : e.kind = "probe")[1].matched])

\* n rounded up to a multiple of m (a negative count matches nothing)
RoundUp(n, m) == IF n <= 0 THEN 0 ELSE Ceil(n, m) * m

\* C8 as stated: within one acquisition (request_daily_data or
\* request_and_write_csv_for_all_daily_data, any extra parameters) offset
\* never decreases and never exceeds the probed matched count rounded up to a
\* multiple of the page limit.  Stated where the probe matched something, so
\* that pages are fetched.
C8_OffsetBounded ==
    (fn \in {"daily", "csv"} /\ pc \in {"loop", "done"} /\ ProbedCount > 0)
    => /\ request_params.offset >= CallerOffset
       /\ request_params.offset
             <= RoundUp(ProbedCount, request_params.limit)

\* C10 as stated: when the caller's property list lacks CLIMATE_IDENTIFIER or
\* STATION_NAME the flushing acquisition raises ValueError before any network
\* call.
C10_RaisedBeforeAnyCall ==
    (fn = "csv" /\ pc # "start"
                /\ (CI \notin Range(args.properties)
                    \/ SN \notin Range(args.properties)))
    => pc = "raised" /\ log = <<>>

\* C10 amended: when the caller's property list lacks CLIMATE_IDENTIFIER or
\* STATION_NAME the flushing acquisition raises ValueError after the one
\* queryables request of the property validation and before the probe and
\* any page request.
C10_RaisedAfterValidationOnly ==
    (fn = "csv" /\ pc # "start"
                /\ (CI \notin Range(args.properties)
                    \/ SN \notin Range(args.properties)))
    => /\ pc = "raised"
       /\ Len(log) = 1
       /\ log[1].kind = "queryables"

C10_Witness ==
    /\ fn = "csv"
    /\ pc = "raised"
    /\ args.properties = <<CI>>
    /\ log = <<QueryablesCall(200)>>

\* C9: when every page request is eventually answered with success,
\* request_daily_data leaves its page loop, and it does so with exactly
\* ceil(n_matched/limit) pages successfully retrieved; an iteration whose
\* request fails neither leaves the loop nor advances offset or counter.
C9_LoopTerminates ==
    /\ (fn = "daily" /\ pc = "loop")
          ~> ( /\ pc = "done"
               /\ successful_iter = Len(OkPages(log))
               /\ successful_iter * CallerLimit >= n_matched
               /\ (successful_iter - 1) * CallerLimit < n_matched )
    /\ [][ ( /\ fn = "daily"
             /\ pc = "loop"
             /\ Len(FailedPages(log')) > Len(FailedPages(log)) )
           => ( /\ pc' = "loop"
                /\ successful_iter' = successful_iter
                /\ request_params' = request_params
                /\ all_daily_data' = all_daily_data ) ]_vars

C9_Witness ==
    /\ fn = "daily"
    /\ pc = "done"
    /\ n_matched = 3
    /\ CallerLimit = 1
    /\ successful_iter = 3
    /\ Len(FailedPages(log)) >= 2
    /\ log[Len(log) - 1].outcome = "read_timeout"

\* C11: find_number_matched returns 0, and the call goes on, when the probe's
\* answer has a status other than 200, a body that does not decode as JSON,
\* or a decoded body without a numberMatched field; otherwise it returns the
\* numberMatched value (to which the flushing acquisition adds its offset).
C11_ProbeFailuresYieldZero ==
    [][ (pc = "probe" /\ fn \in Functions)
        => LET e       == log'[Len(log')]
               counted == IF e.outcome # 200 THEN 0
                          ELSE IF ~e.json THEN 0
                          ELSE IF ~e.has_field THEN 0
                          ELSE e.matched
           IN /\ e.kind = "probe"
              /\ pc' # "raised"
              /\ n_matched' = counted + (IF fn = "csv"
                                         THEN request_params.offset ELSE 0) ]_vars

C11_Witness ==
    /\ fn = "hourly"
    /\ pc = "done"
    /\ n_matched = 0
    /\ log[Len(log)].kind = "probe"
    /\ log[Len(log)].outcome = 500
    /\ log[Len(log)].has_field
    /\ log[Len(log)].matched = 1

\* C12 as stated: whatever limit and offset the base mapping holds, the
\* request find_number_matched issues is its count-only variant: f = json,
\* limit = 1, items = 1, offset = 0, every other parameter as in the base
\* mapping.
C12_ProbeIsCountOnly ==
    (fn \in Functions)
    => \A i \in 1..Len(log) :
          log[i].kind = "probe" =>
             LET p == log[i].params
             IN /\ DOMAIN p = DOMAIN request_params \cup {"f", "items"}
                /\ p.f = "json"
                /\ p.limit = 1
                /\ p.items = 1
                /\ p.offset = 0
                /\ \A k \in DOMAIN request_params \ {"f", "limit", "offset"} :
                      p[k] = request_params[k]

\* the caller's properties that the collection declares queryable, in the
\* caller's order, and their comma-joined form
ValidProperties ==
    SelectSeq(args.properties, LAMBDA p : p \in DeclaredQueryables)
InvalidProperties ==
    SelectSeq(args.properties, LAMBDA p : p \notin DeclaredQueryables)
JoinedValid ==
    CASE ValidProperties = <<CI, SN>> -> "CLIMATE_IDENTIFIER,STATION_NAME"
      [] ValidProperties = <<CI>>     -> "CLIMATE_IDENTIFIER"
      [] ValidProperties = <<>>       -> ""

\* C13: with the queryables request answered, check_unqueryable_properties
\* returns exactly the requested properties that are not declared queryable,
\* in the caller's order; the acquisition removes exactly those, and every
\* probe and page request carries the remaining properties joined by commas
\* in the caller's order.
C13_OnlyValidPropertiesSent ==
    ( /\ fn \in Functions
      /\ pc # "start"
      /\ args.has_properties
      /\ log # <<>>
      /\ log[1].outcome = 200 )
    => /\ unq = InvalidProperties
       /\ properties = ValidProperties
       /\ \A i \in 2..Len(log) :
             /\ log[i].kind \in {"probe", "page"}
             /\ log[i].params.properties = JoinedValid

C13_Witness ==
    /\ fn = "hourly"
    /\ pc = "done"
    /\ args.properties = <<BAD, CI, SN>>
    /\ unq = <<BAD>>
    /\ Len(log) >= 4
    /\ log[1].outcome = 200
    /\ log[2].kind = "probe"
    /\ log[Len(log)].kind = "page"
    /\ log[Len(log)].params.properties = "CLIMATE_IDENTIFIER,STATION_NAME"

\* C14: when the queryables request is answered with a status other than
\* 200, request_queryable_names returns the empty set without raising (the
\* daily and hourly acquisitions go on to the probe) and
\* check_unqueryable_properties returns every requested property.
C14_FailedQueryablesRejectsAll ==
    ( /\ fn \in Functions
      /\ pc # "start"
      /\ args.has_properties
      /\ log # <<>>
      /\ log[1].outcome # 200 )
    => /\ log[1].kind = "queryables"
       /\ request_queryable_names(log[1].outcome) = {}
       /\ unq = args.properties
       /\ properties = <<>>
       /\ (fn # "csv" /\ Len(log) = 1) => pc = "probe"

C14_Witness ==
    /\ fn = "daily"
    /\ pc = "done"
    /\ args.properties = <<BAD, CI, SN>>
    /\ log[1] = QueryablesCall(500)
    /\ unq = <<BAD, CI, SN>>
    /\ Len(log) >= 3
    /\ log[Len(log)].params.properties = ""

\* date_interval is None, a datetime, a string or an iterable of those
GoodDateInterval(d) ==
    \/ d.type \in {"NoneType", "datetime", "str"}
    \/ /\ d.type = "list"
       /\ \A i \in 1..Len(d.items) : d.items[i].type \in {"datetime", "str"}

\* C25 as stated: request_hourly_data raises TypeError, before any network
\* request, when station_id is not an int, when properties is not an
\* iterable, when properties holds an element that is not a string, or when
\* date_interval is neither None nor a datetime, string or iterable of those.
C25_BadInputsRaiseTypeError ==
    ( /\ fn = "hourly"
      /\ pc # "start"
      /\ \/ args.station_id # "int"
         \/ args.properties_type # "list"
         \/ NotAString \in Range(args.properties)
         \/ ~GoodDateInterval(args.date_interval) )
    => /\ pc = "raised"
       /\ log = <<>>
       /\ result.raised = "TypeError"

\* C26 as stated: in request_climate_stations, when the probed match count
\* spans several pages, the k-th page request carries offset (k-1)*limit
\* (from the offset the caller starts at), and the dataset returned after
\* every page succeeded holds each page of the result set once.
C26_StationPagesAdvance ==
    (fn = "stations" /\ pc \in {"loop", "done"} /\ n_iter > 1)
    => LET pages == PageCalls(log)
       IN /\ \A k \in 1..Len(pages) :
                pages[k].offset = CallerOffset + (k - 1) * CallerLimit
          /\ (pc = "done" /\ Len(OkPages(log)) = n_iter)
                => result = Flatten([k \in 1..n_iter |->
                                ServicePage(CallerOffset + (k - 1) * CallerLimit,
                                            CallerLimit)])

\* C27 as stated: whenever request_hourly_data returns a dataset for a
\* probed match count n > 0, the dataset holds the rows of all ceil(n/limit)
\* pages; a page request answered with a non-success status neither ends the
\* acquisition with fewer pages nor surfaces as a failure of the call.
C27_HourlyCompleteDespiteFailures ==
    (fn = "hourly" /\ pc \in {"loop", "done", "raised"} /\ n_matched > 0)
    => /\ pc = "done" =>
             /\ Len(OkPages(log)) = Ceil(n_matched, request_params.limit)
             /\ result = PageRows(OkPages(log))
       /\ ( /\ log[Len(log)].kind = "page"
            /\ log[Len(log)].outcome = "bad_status" )
          => pc = "loop"

\* C28 as stated: in request_daily_data and
\* request_and_write_csv_for_all_daily_data the page count is
\* ceil(match count / limit) and offset advances after each successful page
\* by limit, for the `limit` that the page requests carry, an overriding
\* `limit` among the extra parameters included.
C28_StepIsLimitSent ==
    (fn \in {"daily", "csv"} /\ pc \in {"loop", "done"} /\ n_matched > 0)
    => LET ok == OkPages(log)
       IN /\ n_iter = Ceil(n_matched, request_params.limit)
          /\ \A k \in 1..(Len(ok) - 1) :
                ok[k + 1].offset = ok[k].offset + ok[k].limit
          /\ ok # <<>> =>
                request_params.offset
                   = ok[Len(ok)].offset + ok[Len(ok)].limit

\* -------------------------------- claims on danlab.climate.data_integrity
\* read off the call's dataset
DatesOf(df) == {df[i].LOCAL_DATE : i \in 1..Len(df)}
FirstDate(df) == CHOOSE t \in DatesOf(df) : \A u \in DatesOf(df) : t <= u
LastDate(df) == CHOOSE t \in DatesOf(df) : \A u \in DatesOf(df) : t >= u
DayOf(t) == t \div TicksPerDay
DaysPresent(df) == {DayOf(t) : t \in DatesOf(df)}
\* span_days = (max date - min date).days + 1
span_days(df) == DayOf(LastDate(df) - FirstDate(df)) + 1
\* every timestamp is a calendar day (midnight)
WholeDays(df) == \A t \in DatesOf(df) : t % TicksPerDay = 0
NonMissing(df, c) == Cardinality({i \in 1..Len(df) : df[i][c] >= 0})

\* C15 as stated: for every dataset, every fill plan whose keys are columns
\* and every row selection, fill_data_frame_by_plans returns a dataset in
\* which every row outside the selection has in every column its pre-call
\* value, whatever the policy (constant, computed, bfill/ffill).
C15_RowsOutsideUntouched ==
    (fn = "fill_data_frame_by_plans" /\ pc = "done")
    => /\ Len(result.value) = Len(args.data_in)
       /\ \A i \in 1..Len(args.data_in) :
             ~args.rows_to_edit[i] => result.value[i] = args.data_in[i]

\* C16: for a dataset whose date column holds distinct calendar days,
\* add_missing_days without a fill plan returns span_days rows, one per
\* calendar day from the first to the last in ascending order, indexed by the
\* day and with the date column equal to the index; a day of the input keeps
\* its row's values, a day absent from the input is blank in every original
\* non-date column; with no day missing the row count is unchanged.
C16_OneRowPerCalendarDay ==
    ( /\ fn = "add_missing_days"
      /\ pc # "start"
      /\ args.column_fill_plans.none
      /\ WholeDays(args.data_in)
      /\ Cardinality(DatesOf(args.data_in)) = Len(args.data_in) )
    => /\ pc = "done"
       /\ LET in  == args.data_in
              out == result.value
          IN /\ Len(out) = span_days(in)
             /\ \A k \in 1..Len(out) :
                   /\ out[k].label = FirstDate(in) + (k - 1) * TicksPerDay
                   /\ out[k].LOCAL_DATE = out[k].label
                   /\ IF out[k].label \in DatesOf(in)
                      THEN \E i \in 1..Len(in) :
                              /\ in[i].LOCAL_DATE = out[k].label
                              /\ out[k].X = in[i].X
                              /\ out[k].TMAX = in[i].TMAX
                              /\ out[k].index = in[i].label
                      ELSE /\ out[k].X = NaN
                           /\ out[k].TMAX = NaN
             /\ Len(in) = span_days(in) => Len(out) = Len(in)

C16_Witness ==
    /\ fn = "add_missing_days"
    /\ pc = "done"
    /\ Len(args.data_in) = 2
    /\ args.data_in[1].LOCAL_DATE = 2 * TicksPerDay
    /\ args.data_in[2].LOCAL_DATE = 0
    /\ args.data_in[1].X = 1
    /\ Len(result.value) = 3
    /\ result.value[2].label = TicksPerDay
    /\ result.value[2].X = NaN
    /\ result.value[3].index = 0

\* C17 as stated: for all datasets with a date-time column, the number of
\* days list_missing_days returns plus the number of distinct days present
\* in the column equals span_days.
C17_MissingPlusPresentIsSpan ==
    (fn = "list_missing_days" /\ pc = "done")
    => Len(result.value) + Cardinality(DaysPresent(args.data_in))
          = span_days(args.data_in)

\* C17 amended: for all datasets whose date column holds whole calendar days
\* (timestamps without a time of day), repeated or not and in any order, the
\* number of days list_missing_days returns plus the number of distinct days
\* present equals span_days, and the days returned are the days of the span
\* that are absent from the column.
C17_MissingPlusPresentIsSpanOnWholeDays ==
    (fn = "list_missing_days" /\ pc # "start" /\ WholeDays(args.data_in))
    => /\ pc = "done"
       /\ Len(result.value) + Cardinality(DaysPresent(args.data_in))
             = span_days(args.data_in)
       /\ Range(result.value) =
             { t \in FirstDate(args.data_in)..LastDate(args.data_in) :
                  t % TicksPerDay = 0 /\ t \notin DatesOf(args.data_in) }

C17_Witness ==
    /\ fn = "list_missing_days"
    /\ pc = "done"
    /\ Len(args.data_in) = 3
    /\ args.data_in[1].LOCAL_DATE = 2 * TicksPerDay
    /\ args.data_in[2].LOCAL_DATE = 0
    /\ args.data_in[3].LOCAL_DATE = 2 * TicksPerDay
    /\ result.value = <<TicksPerDay>>

\* the ratios a coverage call returned
Ratios ==
    IF fn = "calc_daily_data_coverage_percentages" /\ args.columns.type = "list"
    THEN {result.value[k].value : k \in 1..Len(result.value)}
    ELSE {result.value}
TargetColumns == Range(args.columns.names)

\* C18 as stated: for every dataset the two coverage functions accept, every
\* returned ratio lies in [0, 1], and a dataset with no missing day and no
\* null cell in the target columns yields exactly 1.
C18_CoverageWithinUnit ==
    ( /\ fn \in {"calc_daily_data_coverage_percentages",
                 "calc_percent_rows_fully_covered"}
      /\ pc = "done" )
    => \A r \in Ratios :
          /\ 0 <= r.num
          /\ r.num <= r.den
          /\ ( /\ Cardinality(DaysPresent(args.data_in))
                    = span_days(args.data_in)
               /\ \A c \in TargetColumns :
                     NonMissing(args.data_in, c) = Len(args.data_in) )
             => r.num = r.den

CoverageName(c) ==
    CASE c = "X" -> "X_COVERAGE" [] c = "TMAX" -> "TMAX_COVERAGE"

\* C19: calc_daily_data_coverage_percentages returns, independently for each
\* requested column, the number of rows with a non-missing value in it over
\* span_days, so that a day without a row lowers the ratio as a null does.
C19_CoverageIsCountOverSpan ==
    (fn = "calc_daily_data_coverage_percentages" /\ pc = "done")
    => IF args.columns.type = "str"
       THEN result.value =
               [num |-> NonMissing(args.data_in, args.columns.names[1]),
                den |-> span_days(args.data_in)]
       ELSE /\ Len(result.value) = Len(args.columns.names)
            /\ \A k \in 1..Len(result.value) :
                  /\ result.value[k].index = CoverageName(args.columns.names[k])
                  /\ result.value[k].value =
                        [num |-> NonMissing(args.data_in, args.columns.names[k]),
                         den |-> span_days(args.data_in)]

C19_Witness ==
    /\ fn = "calc_daily_data_coverage_percentages"
    /\ pc = "done"
    /\ args.columns = ColumnList(<<"X", "TMAX">>)
    /\ Len(args.data_in) = 2
    /\ args.data_in[1].LOCAL_DATE = 0
    /\ args.data_in[2].LOCAL_DATE = 2 * TicksPerDay
    /\ result.value[1] = [index |-> "X_COVERAGE", value |-> [num |-> 2, den |-> 3]]
    /\ result.value[2] = [index |-> "TMAX_COVERAGE", value |-> [num |-> 1, den |-> 3]]

\* C20 as stated: called with `columns` a single column-name string, of any
\* length, that names a column of the dataset,
\* calc_daily_data_coverage_percentages raises no error and returns a single
\* ratio for that column.
C20_SingleNameAccepted ==
    ( /\ fn = "calc_daily_data_coverage_percentages"
      /\ pc # "start"
      /\ args.columns.type = "str"
      /\ args.columns.names[1] \in Columns(args.data_in) )
    => /\ pc = "done"
       /\ DOMAIN result.value = {"num", "den"}

\* the plans of the call, and what a string plan is
PlanItems == args.column_fill_plans.items
IsMethodString(plan) ==
    /\ plan.type = "str"
    /\ Len(plan.parts) = 2
    /\ strip(plan.parts[1]) = "method"
IsDirective(plan) ==
    IsMethodString(plan) /\ strip(plan.parts[2]) \in {"bfill", "ffill"}

\* C21 as stated: fill_data_frame_by_plans raises a configuration error for
\* every string plan other than 'method=bfill' and 'method=ffill'; no such
\* string is applied or ignored and no dataset is returned.
C21_UnknownStringRaises ==
    ( /\ fn = "fill_data_frame_by_plans"
      /\ pc # "start"
      /\ ~args.column_fill_plans.none
      /\ BadPlanKeys(args.data_in, args.column_fill_plans) = {}
      /\ \E i \in 1..Len(PlanItems) :
            /\ PlanItems[i].plan.type = "str"
            /\ PlanItems[i].plan.parts
                  \notin {<<"method", "bfill">>, <<"method", "ffill">>} )
    => pc = "raised" /\ result.raised = "ValueError"

\* C21 amended: fill_data_frame_by_plans raises ValueError, and returns no
\* dataset, for every plan that is a string of the form 'method=<x>' (blanks
\* around either part ignored) with <x> other than bfill and ffill; a string
\* that is not of that form is a constant policy: it is written to the
\* selected rows of its column and the dataset is returned.
C21_UnknownMethodRaises ==
    ( /\ fn = "fill_data_frame_by_plans"
      /\ pc # "start"
      /\ ~args.column_fill_plans.none
      /\ BadPlanKeys(args.data_in, args.column_fill_plans) = {} )
    => /\ (\E i \in 1..Len(PlanItems) :
              IsMethodString(PlanItems[i].plan)
                 /\ ~IsDirective(PlanItems[i].plan))
          => /\ pc = "raised"
             /\ result.raised = "ValueError"
             /\ result.value = <<>>
       /\ ( /\ Len(PlanItems) = 1
            /\ PlanItems[1].plan.type = "str"
            /\ ~IsMethodString(PlanItems[1].plan) )
          => /\ pc = "done"
             /\ \A i \in 1..Len(args.data_in) :
                   result.value[i] =
                      IF args.rows_to_edit[i]
                      THEN [args.data_in[i] EXCEPT
                               ![PlanItems[1].col] = PlanItems[1].plan.value]
                      ELSE args.data_in[i]

C21_Witness ==
    /\ fn = "fill_data_frame_by_plans"
    /\ pc = "raised"
    /\ Len(args.data_in) = 2
    /\ args.rows_to_edit = <<TRUE, FALSE>>
    /\ PlanItems = <<[col |-> "X", plan |-> Str(<<"method", "pad">>, 8)]>>
    /\ result.raised = "ValueError"

SameRow(in, i, out, k) ==
    /\ out[k].LOCAL_DATE = in[i].LOCAL_DATE
    /\ out[k].X = in[i].X
    /\ out[k].TMAX = in[i].TMAX
    /\ out[k].index = in[i].label

\* C29 as stated: for every input whose date column holds timestamps,
\* whatever their time of day, add_missing_days returns a dataset in which
\* every input row appears with all of its original column values.
C29_InputRowsKept ==
    ( /\ fn = "add_missing_days"
      /\ pc # "start"
      /\ BadPlanKeys(args.data_in, args.column_fill_plans) = {} )
    => /\ pc = "done"
       /\ \A i \in 1..Len(args.data_in) :
             \E k \in 1..Len(result.value) :
                SameRow(args.data_in, i, result.value, k)

\* the input row of the latest date before t
EarlierInputRows(in, t) == {i \in 1..Len(in) : in[i].LOCAL_DATE < t}
NearestEarlier(in, t) ==
    CHOOSE i \in EarlierInputRows(in, t) :
       \A j \in EarlierInputRows(in, t) : in[j].LOCAL_DATE <= in[i].LOCAL_DATE

\* C30 as stated: add_missing_days with the plan 'method=ffill' for a column
\* that is non-missing in every input row returns a dataset in which that
\* column is non-missing in every row, each inserted day carries the value of
\* the nearest earlier input day, and every input row keeps its own value.
C30_ForwardFillCompletes ==
    ( /\ fn = "add_missing_days"
      /\ pc # "start"
      /\ PlanItems = <<[col |-> "X", plan |-> Str(<<"method", "ffill">>, 8)]>>
      /\ \A i \in 1..Len(args.data_in) : args.data_in[i].X # NaN )
    => /\ pc = "done"
       /\ LET in  == args.data_in
              out == result.value
          IN /\ \A k \in 1..Len(out) : out[k].X # NaN
             /\ \A k \in 1..Len(out) :
                   out[k].index = NaN =>
                      /\ EarlierInputRows(in, out[k].label) # {}
                      /\ out[k].X = in[NearestEarlier(in, out[k].label)].X
             /\ \A i \in 1..Len(in) :
                   \E k \in 1..Len(out) :
                      /\ out[k].LOCAL_DATE = in[i].LOCAL_DATE
                      /\ out[k].X = in[i].X

\* ---------------------------------------------- claims on danlab.data_clean
\* the input columns the property list does not name, in their input order
ColumnsNotListed ==
    SelectSeq(args.df.columns, LAMBDA c : c \notin Range(args.properties.names))

\* C23: reorder_columns_to_match_properties returns a dataset whose columns
\* are the input columns not in the property list, in their input order,
\* followed by the property list in its order; every row is kept, in place,
\* with its cells (a listed column the input lacks is blank); with no
\* property list (None) the dataset is returned as it is.
C23_OthersThenProperties ==
    (fn = "reorder_columns_to_match_properties" /\ pc # "start")
    => /\ pc # "raised"
       /\ pc = "done" =>
             IF args.properties.none THEN result.value = args.df
             ELSE /\ result.value.columns
                        = ColumnsNotListed \o args.properties.names
                  /\ Len(result.value.rows) = Len(args.df.rows)
                  /\ \A r \in 1..Len(args.df.rows) :
                        \A c \in Range(result.value.columns) :
                           result.value.rows[r][c] =
                              IF c \in Range(args.df.columns)
                              THEN args.df.rows[r][c] ELSE NaN

C23_Witness ==
    /\ fn = "reorder_columns_to_match_properties"
    /\ pc = "done"
    /\ args.df.columns = <<"id", SN, CI>>
    /\ Len(args.df.rows) = 2
    /\ args.properties = PropertiesOf(<<CI, "LOCAL_DATE">>)
    /\ result.value.columns = <<"id", SN, CI, "LOCAL_DATE">>
    /\ result.value.rows[2][CI] = Cell(2, CI)
    /\ result.value.rows[2]["LOCAL_DATE"] = NaN

\* C24: applying reorder_columns_to_match_properties to its own result with
\* the same property list raises nothing and returns the column order (and
\* the dataset) the first application returned.
C24_ReorderIdempotent ==
    [][ (fn = "reorder_columns_to_match_properties" /\ pc = "done")
        => /\ pc' = "done twice"
           /\ result'.value.columns = result.value.columns
           /\ result' = result ]_vars

C24_Witness ==
    /\ fn = "reorder_columns_to_match_properties"
    /\ pc = "done twice"
    /\ args.df.columns = <<CI, "id", SN>>
    /\ args.properties = PropertiesOf(<<SN, CI>>)
    /\ result.value.columns = <<"id", SN, CI>>

====
